---------------------------- MODULE Spec2Model ----------------------------
(***************************************************************************)
(* The chat playground's inference session (src/src/chat.rs) and its      *)
(* completion stream (src/src/openai.rs).                                  *)
(*                                                                         *)
(* ChatView::update is the only writer of the conversation.  It is fed by  *)
(* two sources: messages the widgets of the last rendered view emit       *)
(* (ChatView::view gates some of them on the status it was rendered with), *)
(* and messages produced by the task of a run (Completion per stream      *)
(* item, then the chained Stop), which travel through the runtime's       *)
(* channel before update sees them.  The runtime hands update a batch:    *)
(* first the task messages that have arrived, then the widget messages    *)
(* of the events of that frame, and only then renders the view again.     *)
(*                                                                         *)
(* A run is built from the saved settings of SettingsView                   *)
(* (src/src/settings.rs), which its own widgets and tasks change.  Of the  *)
(* settings, the model keeps the fields a run's request and URL are built  *)
(* from: base_url, model, max_tokens and temperature.                      *)
(*                                                                         *)
(* Text is a sequence of one-character strings.                            *)
(***************************************************************************)
EXTENDS Integers, Sequences, FiniteSets, TLC

VARIABLES
    messages,              \* ChatView.messages: Seq of [role, content]
    inference_status,      \* ChatView.inference_status
    stick_to_bottom,       \* ChatView.stick_to_bottom
    settings,              \* Playground.settings_view: Loading, or Loaded with saved and live
    saves,                 \* settings handed to save_settings, SaveResult not yet processed
    view_not_inferencing,  \* not_inferencing of the view the widgets were built from
    view_settings,         \* what the settings panel of that view offers
    ui_batch,              \* a widget message of the current batch was processed
    queue,                 \* task messages produced, not yet passed to update
    stream,                \* per run: state of the event source behind the task
    aborted,               \* per run: the abort handle of the task was triggered
    sent,                  \* per run: the items the event source has yielded
    request,               \* per run: the CompletionRequest
    url,                   \* per run: the URL completions posts it to
    nruns,                 \* number of Run messages processed so far
    nui,                   \* number of widget messages processed so far
    nedits,                \* number of them that edited a role, a text, the checkbox or a setting
    append_target,         \* history: index of the message the last Run designated, 0 if removed
    ended_by,              \* history: per run, the message that dropped its handle
    user_acted,            \* history: per run, a widget message was processed during it
    fresh,                 \* history: per run, Run pushed a new empty Assistant message
    last                   \* history: the message update processed last

chat == <<messages, inference_status, stick_to_bottom>>

tasks == <<stream, aborted, sent, request, url>>

prefs == <<settings, saves>>

views == <<view_not_inferencing, view_settings>>

counters == <<nruns, nui, nedits>>

history == <<append_target, ended_by, user_acted, fresh, last>>

vars == <<messages, inference_status, stick_to_bottom, settings, saves,
          view_not_inferencing, view_settings, ui_batch, queue, stream, aborted,
          sent, request, url, nruns, nui, nedits, append_target, ended_by,
          user_acted, fresh, last>>

---------------------------------------------------------------------------
(* Bounds *)

MaxRuns == 2

MaxEvents == 3

MaxUi == 3

MaxEdits == 1

\* Longest base_url a settings file is given.
MaxUrlLen == 5

Runs == 1..MaxRuns

---------------------------------------------------------------------------
(* Data *)

Role == {"System", "User", "Assistant"}

\* text_editor::Content::new(): no text, cursor at the start.
NewContent == [text |-> <<>>, cursor |-> 0]

UiChatMsg(role, content) == [role |-> role, content |-> content]

Idle == [state |-> "Idle", abort_handle |-> 0]

Inferencing(handle) == [state |-> "Inferencing", abort_handle |-> handle]

ERROR_PREFIX ==
    <<"\n", "\n", "R", "a", "n", " ", "i", "n", "t", "o", " ", "a", "n", " ",
      "e", "r", "r", "o", "r", ":", "\n">>

\* Fragments the server may put in choices[0].delta.content.
Fragments == {<<"H", "e", "l">>, <<"l", "o">>}

\* Display text of the errors a stream item can carry.
TransportText ==
    <<"c", "o", "n", "n", "e", "c", "t", "i", "o", "n", " ", "r", "e", "s", "e", "t">>

StatusText ==
    <<"I", "n", "v", "a", "l", "i", "d", " ", "s", "t", "a", "t", "u", "s", " ",
      "c", "o", "d", "e", ":", " ", "4", "0", "1">>

JsonErrorText ==
    <<"e", "x", "p", "e", "c", "t", "e", "d", " ", "v", "a", "l", "u", "e">>

DeltaNotFoundText ==
    <<"D", "e", "l", "t", "a", " ", "n", "o", "t", " ", "f", "o", "u", "n", "d",
      " ", "w", "i", "t", "h", "i", "n", ":", "\n", "{", "}">>

---------------------------------------------------------------------------
(* text_editor::Content as chat.rs uses it *)

\* Action::Edit(Edit::Paste(s)): s goes in at the cursor, the cursor ends after it.
Paste(content, s) ==
    [text   |-> SubSeq(content.text, 1, content.cursor) \o s
                \o SubSeq(content.text, content.cursor + 1, Len(content.text)),
     cursor |-> content.cursor + Len(s)]

\* No editor action: what a message other than EditText carries.
NoAction == [kind |-> "None", ch |-> ""]

\* The editor actions a widget can emit through EditText.
EditActions ==
    {[kind |-> "MoveLeft", ch |-> ""], [kind |-> "MoveRight", ch |-> ""],
     [kind |-> "Insert", ch |-> "x"], [kind |-> "Backspace", ch |-> ""]}

\* Content::perform(action)
Perform(content, action) ==
    CASE action.kind = "MoveLeft" ->
            [content EXCEPT !.cursor = IF @ > 0 THEN @ - 1 ELSE 0]
      [] action.kind = "MoveRight" ->
            [content EXCEPT !.cursor = IF @ < Len(content.text) THEN @ + 1 ELSE @]
      [] action.kind = "Insert" -> Paste(content, <<action.ch>>)
      [] action.kind = "Backspace" ->
            IF content.cursor = 0 THEN content
            ELSE [text   |-> SubSeq(content.text, 1, content.cursor - 1)
                             \o SubSeq(content.text, content.cursor + 1, Len(content.text)),
                  cursor |-> content.cursor - 1]

\* Content::text(): the lines joined by "\n", closed by a "\n" when the text
\* does not already end with one.
ContentText(content) ==
    IF content.text # <<>> /\ content.text[Len(content.text)] = "\n"
    THEN content.text
    ELSE content.text \o <<"\n">>

---------------------------------------------------------------------------
(* settings.rs: the settings a run is built from *)

\* Option<T> of a Parsable: Some(v) or None.
Some(v) == [some |-> TRUE, val |-> v]

NoValue == [some |-> FALSE, val |-> 0]

\* Parsable { content, parsed }
Parsable(content, parsed) == [content |-> content, parsed |-> parsed]

Digits == <<"0", "1", "2", "3", "4", "5", "6", "7", "8", "9">>

IsDigit(c) == \E d \in DOMAIN Digits : Digits[d] = c

DigitValue(c) == (CHOOSE d \in DOMAIN Digits : Digits[d] = c) - 1

RECURSIVE Decimal(_)
Decimal(str) ==
    IF str = <<>> THEN 0
    ELSE 10 * Decimal(SubSeq(str, 1, Len(str) - 1)) + DigitValue(str[Len(str)])

\* string.parse::<u32>().ok() on texts of up to 9 characters (every number of
\* up to 9 digits fits u32): the number when all are decimal digits.
ParseU32(str) ==
    IF str # <<>> /\ Len(str) <= 9 /\ (\A i \in DOMAIN str : IsDigit(str[i]))
    THEN Some(Decimal(str))
    ELSE NoValue

\* string.parse::<f32>().ok() on the texts given here, whole numbers of up
\* to 7 digits (exact in f32) or text that is no number.
ParseF32(str) ==
    IF str # <<>> /\ Len(str) <= 7 /\ (\A i \in DOMAIN str : IsDigit(str[i]))
    THEN Some(Decimal(str))
    ELSE NoValue

\* Parsable::parse
ParsableU32(str) == Parsable(str, ParseU32(str))

ParsableF32(str) == Parsable(str, ParseF32(str))

\* Parsable::is_valid
is_valid(parsable) == parsable.parsed.some

\* .parsed().unwrap_or_default()
unwrap_or_default(parsable) ==
    IF parsable.parsed.some THEN parsable.parsed.val ELSE 0

SerializedSettings(base_url, model, max_tokens, temperature) ==
    [base_url |-> base_url, model |-> model, max_tokens |-> max_tokens,
     temperature |-> temperature]

\* SerializedSettings::default()
DefaultSettings ==
    SerializedSettings(<<>>, <<>>, Parsable(<<"1", "0", "0", "0">>, Some(1000)),
                       Parsable(<<"0">>, Some(0)))

\* What load_existing_settings().unwrap_or_default() gives on a first
\* start, with no settings.json to read.
SettingsFiles == {DefaultSettings}

\* The texts of up to n characters over "h" and "/".
RECURSIVE UrlTexts(_)
UrlTexts(n) ==
    IF n = 0 THEN {<<>>}
    ELSE UrlTexts(n - 1)
         \cup {Append(t, c) : t \in {u \in UrlTexts(n - 1) : Len(u) = n - 1},
                              c \in {"h", "/"}}

BaseUrlInputs == UrlTexts(MaxUrlLen)

\* Texts typed into the settings panel.
BaseUrls == {<<"h">>, <<"h", "/">>}

Models == {<<"m">>}

NumberInputs == {<<"7">>, <<"x">>}

\* SettingsView::settings().saved(): the defaults while Loading.
SavedSettings ==
    IF settings.view = "Loading" THEN DefaultSettings ELSE settings.saved

LiveSettings ==
    IF settings.view = "Loading" THEN DefaultSettings ELSE settings.live

\* SettingsState::valid_parsables
valid_parsables ==
    is_valid(LiveSettings.max_tokens) /\ is_valid(LiveSettings.temperature)

\* SettingsState::unsaved_changes
unsaved_changes == settings.saved # settings.live

\* SettingsView::view: no widget while Loading; otherwise the inputs, and a
\* Save button that can be pressed when the values are valid and unsaved.
SettingsPanel ==
    IF settings.view = "Loading" THEN "Loading"
    ELSE IF valid_parsables /\ unsaved_changes THEN "Save"
    ELSE "NoSave"

\* SettingsView::update_settings
update_settings(field, value) ==
    IF settings.view = "Loaded"
    THEN [settings EXCEPT !.live[field] = value]
    ELSE settings

\* The arms BaseUrlChanged, ModelChanged, MaxTokensChanged, TemperatureChanged.
SettingsChanged(field, value) ==
    /\ settings' = update_settings(field, value)
    /\ UNCHANGED saves

\* The arm Load, and what it and SaveResult do to the view.
Loaded(state) == [view |-> "Loaded", saved |-> state, live |-> state]

Load(state) ==
    /\ settings' = Loaded(state)
    /\ UNCHANGED saves

\* The arm Save: the live settings go to save_settings.
Save ==
    /\ saves' = Append(saves, LiveSettings)
    /\ UNCHANGED settings

\* The arm SaveResult: Ok makes the written settings saved and live, Err is ignored.
SaveResult(ok, new_settings) ==
    /\ settings' = IF ok THEN Loaded(new_settings) ELSE settings
    /\ saves' = Tail(saves)

---------------------------------------------------------------------------
(* openai.rs: the completions stream *)

COMPLETIONS_PATH ==
    <<"v", "1", "/", "c", "h", "a", "t", "/", "c", "o", "m", "p", "l", "e", "t",
      "i", "o", "n", "s">>

\* Mutant: the slash is put in whatever the base ends with.
CompletionsUrlAlwaysSlash(base_url) == base_url \o <<"/">> \o COMPLETIONS_PATH

\* let url = match base_url.chars().last() { Some('/') => .., _ => .. }
CompletionsUrl(base_url) ==
    IF base_url # <<>> /\ base_url[Len(base_url)] = "/"
    THEN base_url \o COMPLETIONS_PATH
    ELSE base_url \o <<"/">> \o COMPLETIONS_PATH

\* The string at a place of a JSON document, or what is there instead.
JAbsent == [json |-> "absent", str |-> <<>>]

JNull == [json |-> "null", str |-> <<>>]

JNumber == [json |-> "number", str |-> <<>>]

JString(s) == [json |-> "string", str |-> s]

\* A JSON document, as far as completions reads it: what it holds at
\* /choices/0/delta/content.
JsonValue(c) == [choices_0_delta_content |-> c]

NotJsonData == [json |-> "invalid", str |-> <<>>]

\* An item of the event source.  A message event carries its data: the
\* literal "[DONE]", text that is not JSON, or a JSON document.
Event(type, kind, content) == [type |-> type, kind |-> kind, content |-> content]

EvOpen == Event("Open", "", NotJsonData)

EvDone == Event("Message", "DONE", NotJsonData)

EvContent(f) == Event("Message", "Json", JString(f))

\* A frame without delta.content, such as a role-only opening frame.
EvNoContent == Event("Message", "Json", JAbsent)

EvNullContent == Event("Message", "Json", JNull)

EvNumberContent == Event("Message", "Json", JNumber)

EvNotJson == Event("Message", "NotJson", NotJsonData)

ErrStreamEnded == Event("Err", "StreamEnded", NotJsonData)

ErrTransport == Event("Err", "Transport", NotJsonData)

ErrStatus == Event("Err", "InvalidStatusCode", NotJsonData)

\* The message events a server may send.
MessageEvents ==
    {EvDone, EvNoContent, EvNullContent, EvNumberContent, EvNotJson}
    \cup {EvContent(f) : f \in Fragments \cup {<<>>}}

\* What eventsource() can yield next: while connecting, the Open event or a
\* failure to connect; once open, the server's message events, a transport
\* error, or the end of the response body (StreamEnded).
EventSourceItems(s) ==
    CASE s = "connecting" -> {EvOpen, ErrTransport, ErrStatus}
      [] s = "open" -> MessageEvents \cup {ErrTransport, ErrStreamEnded}
      [] OTHER -> {}

\* The event source after yielding ev: a rejected response closes it, a transport
\* error makes it connect again, StreamEnded is where take_while cuts the stream.
EventSourceNext(s, ev) ==
    CASE ev = EvOpen -> "open"
      [] ev = ErrStatus -> "closed"
      [] ev = ErrTransport -> "connecting"
      [] ev = ErrStreamEnded -> "done"
      [] OTHER -> s

None == [tag |-> "None", val |-> <<>>]

Ok(s) == [tag |-> "Ok", val |-> s]

Err(s) == [tag |-> "Err", val |-> s]

\* Mutant: nothing is cut, StreamEnded goes on to the parser like any error.
take_while_all(ev) == TRUE

\* take_while(|res| !matches!(res, Err(StreamEnded)))
take_while(ev) == ev # ErrStreamEnded

\* serde_json::from_str::<Value>(data): the document, or a syntax error.
from_str(ev) ==
    IF ev.kind = "Json" THEN Ok(JsonValue(ev.content)) ELSE Err(JsonErrorText)

\* value.pointer("/choices/0/delta/content"): the value there, if any.
pointer(value) ==
    IF value.choices_0_delta_content.json = "absent" THEN None
    ELSE Ok(value.choices_0_delta_content)

\* Mutant: any value that is present is rendered to text, a null as no text.
as_str_lenient(v) == Ok(v.str)

\* Value::as_str: the text of a JSON string, nothing for any other value.
as_str(v) == IF v.json = "string" THEN Ok(v.str) ELSE None

\* .pointer(..).and_then(Value::as_str).map(str::to_string).ok_or_else(..)
delta_content(value) ==
    IF pointer(value) = None THEN Err(DeltaNotFoundText)
    ELSE IF as_str(pointer(value).val) = None THEN Err(DeltaNotFoundText)
    ELSE Ok(as_str(pointer(value).val).val)

\* Mutant: no test for "[DONE]", which is then parsed as JSON and fails.
try_filter_map_no_done(ev) ==
    CASE ev.type = "Err" ->
            Err(IF ev.kind = "Transport" THEN TransportText ELSE StatusText)
      [] ev.type = "Message" ->
            IF from_str(ev).tag = "Err" THEN from_str(ev)
            ELSE delta_content(from_str(ev).val)
      [] OTHER -> None

\* Mutant: an event that is no message is reported as an error.
try_filter_map_open_err(ev) ==
    CASE ev.type = "Err" ->
            Err(IF ev.kind = "Transport" THEN TransportText ELSE StatusText)
      [] ev.type = "Message" ->
            IF ev.kind = "DONE" THEN None
            ELSE IF from_str(ev).tag = "Err" THEN from_str(ev)
            ELSE delta_content(from_str(ev).val)
      [] OTHER -> Err(JsonErrorText)

\* Mutant: a fragment without text is dropped like "[DONE]".
try_filter_map_non_empty(ev) ==
    CASE ev.type = "Err" ->
            Err(IF ev.kind = "Transport" THEN TransportText ELSE StatusText)
      [] ev.type = "Message" ->
            IF ev.kind = "DONE" THEN None
            ELSE IF from_str(ev).tag = "Err" THEN from_str(ev)
            ELSE IF delta_content(from_str(ev).val) = Ok(<<>>) THEN None
            ELSE delta_content(from_str(ev).val)
      [] OTHER -> None

\* map_err + the try_filter_map closure: the item (if any) of one event.
try_filter_map(ev) ==
    CASE ev.type = "Err" ->
            Err(IF ev.kind = "Transport" THEN TransportText ELSE StatusText)
      [] ev.type = "Message" ->
            IF ev.kind = "DONE" THEN None
            ELSE IF from_str(ev).tag = "Err" THEN from_str(ev)
            ELSE delta_content(from_str(ev).val)
      [] OTHER -> None

---------------------------------------------------------------------------
(* chat.rs: the task of a run and the messages it produces *)

CompletionMsg(item, r) ==
    [msg |-> "Completion", ok |-> item.tag = "Ok", delta |-> item.val, run |-> r]

StopMsg(r) == [msg |-> "Stop", ok |-> TRUE, delta |-> <<>>, run |-> r]

RECURSIVE SumLen(_, _)
SumLen(f, n) == IF n = 0 THEN 0 ELSE Len(f[n]) + SumLen(f, n - 1)

\* Items the event sources of all runs have yielded so far.
Yielded == SumLen(sent, MaxRuns)

\* What one poll of the task adds to the channel when the event source yields ev:
\* the chained Stop follows the end of the stream in the same poll.
Produced(ev, r) ==
    IF ~take_while(ev) THEN <<StopMsg(r)>>
    ELSE IF try_filter_map(ev) = None THEN <<>>
    ELSE <<CompletionMsg(try_filter_map(ev), r)>>

\* One poll of the abortable task of run r that finds the event source ready
\* with ev; an aborted task yields nothing more.
TaskPoll(r, ev) ==
    /\ ~aborted[r]
    /\ Yielded < MaxEvents
    /\ ev \in EventSourceItems(stream[r])
    /\ sent' = [sent EXCEPT ![r] = Append(@, ev)]
    /\ stream' = [stream EXCEPT ![r] = EventSourceNext(@, ev)]
    /\ queue' = queue \o Produced(ev, r)
    /\ UNCHANGED <<chat, prefs, views, ui_batch, aborted, request, url,
                   counters, history>>

\* One poll that finds the event source closed (after a rejected response):
\* the stream is over and the chained Stop is produced.
TaskPollClosed(r) ==
    /\ ~aborted[r]
    /\ stream[r] = "closed"
    /\ stream' = [stream EXCEPT ![r] = "done"]
    /\ queue' = Append(queue, StopMsg(r))
    /\ UNCHANGED <<chat, prefs, views, ui_batch, aborted, sent, request, url,
                   counters, history>>

---------------------------------------------------------------------------
(* chat.rs: ChatView::update, one operator per arm.  Each gives the next      *)
(* ChatView, the tasks it starts or aborts, and the history of targets.      *)

\* Mutant: the handle is dropped without aborting its task.
DropStatusKeepsTask == aborted

\* Dropping the status drops the handle it holds; abort_on_drop aborts its task.
DropStatus ==
    IF inference_status.state = "Inferencing"
    THEN [aborted EXCEPT ![inference_status.abort_handle] = TRUE]
    ELSE aborted

Ended(by) ==
    IF inference_status.state = "Inferencing"
    THEN [ended_by EXCEPT ![inference_status.abort_handle] = by]
    ELSE ended_by

\* Mutant: the role is changed whatever the status.
ChangeRoleUnguarded(index, role) ==
    /\ messages' = [messages EXCEPT ![index].role = role]
    /\ UNCHANGED <<inference_status, stick_to_bottom, stream, aborted, request,
                   url, nruns, append_target, ended_by, fresh>>

ChangeRole(index, role) ==
    /\ messages' = IF inference_status.state = "Idle"
                   THEN [messages EXCEPT ![index].role = role]
                   ELSE messages
    /\ UNCHANGED <<inference_status, stick_to_bottom, stream, aborted, request,
                   url, nruns, append_target, ended_by, fresh>>

\* Mutant: the request of the run in flight shares the conversation's texts,
\* so an edit shows in it.
EditTextShared(index, action) ==
    /\ messages' = [messages EXCEPT ![index].content = Perform(@, action)]
    /\ request' =
          [r \in Runs |->
              IF inference_status = Inferencing(r)
              THEN [request[r] EXCEPT !.messages =
                       [i \in DOMAIN messages' |->
                           [content |-> ContentText(messages'[i].content),
                            role    |-> messages'[i].role]]]
              ELSE request[r]]
    /\ UNCHANGED <<inference_status, stick_to_bottom, stream, aborted, url, nruns,
                   append_target, ended_by, fresh>>

EditText(index, action) ==
    /\ messages' = [messages EXCEPT ![index].content = Perform(@, action)]
    /\ UNCHANGED <<inference_status, stick_to_bottom, stream, aborted, request,
                   url, nruns, append_target, ended_by, fresh>>

\* Mutant: a message is added only while Idle.
AddMessageGuarded ==
    /\ messages' = IF inference_status.state = "Idle"
                   THEN Append(messages, UiChatMsg("User", NewContent))
                   ELSE messages
    /\ UNCHANGED <<inference_status, stick_to_bottom, stream, aborted, request,
                   url, nruns, append_target, ended_by, fresh>>

AddMessage ==
    /\ messages' = Append(messages, UiChatMsg("User", NewContent))
    /\ UNCHANGED <<inference_status, stick_to_bottom, stream, aborted, request,
                   url, nruns, append_target, ended_by, fresh>>

Remove(seq, index) == SubSeq(seq, 1, index - 1) \o SubSeq(seq, index + 1, Len(seq))

DeleteMessage(index) ==
    /\ messages' = Remove(messages, index)
    /\ append_target' = IF index < append_target THEN append_target - 1
                        ELSE IF index = append_target THEN 0
                        ELSE append_target
    /\ UNCHANGED <<inference_status, stick_to_bottom, stream, aborted, request,
                   url, nruns, ended_by, fresh>>

\* Mutant: looks at the first message instead of the last.
is_first_msg_assistant ==
    messages # <<>> /\ messages[1].role = "Assistant"

is_last_msg_assistant ==
    messages # <<>> /\ messages[Len(messages)].role = "Assistant"

\* No request: the run has not been started.
NoRequest ==
    [messages |-> <<>>, model |-> <<>>, max_tokens |-> 0, stream |-> FALSE,
     temperature |-> 0]

\* Mutant: the request is built after the append target was pushed.
NewRequestAfterPush ==
    LET pushed == IF is_last_msg_assistant THEN messages
                  ELSE Append(messages, UiChatMsg("Assistant", NewContent))
    IN  [messages    |-> [i \in DOMAIN pushed |->
                             [content |-> ContentText(pushed[i].content),
                              role    |-> pushed[i].role]],
         model       |-> SavedSettings.model,
         max_tokens  |-> unwrap_or_default(SavedSettings.max_tokens),
         stream      |-> TRUE,
         temperature |-> unwrap_or_default(SavedSettings.temperature)]

\* CompletionRequest::new over the conversation and the saved settings as
\* they are when Run is processed.
NewRequest ==
    [messages    |-> [i \in DOMAIN messages |->
                         [content |-> ContentText(messages[i].content),
                          role    |-> messages[i].role]],
     model       |-> SavedSettings.model,
     max_tokens  |-> unwrap_or_default(SavedSettings.max_tokens),
     stream      |-> TRUE,
     temperature |-> unwrap_or_default(SavedSettings.temperature)]

Run ==
    /\ nruns < MaxRuns
    /\ nruns' = nruns + 1
    /\ request' = [request EXCEPT ![nruns + 1] = NewRequest]
    /\ url' = [url EXCEPT ![nruns + 1] = CompletionsUrl(SavedSettings.base_url)]
    /\ stream' = [stream EXCEPT ![nruns + 1] = "connecting"]
    /\ aborted' = DropStatus
    /\ ended_by' = Ended("Run")
    /\ inference_status' = Inferencing(nruns + 1)
    /\ messages' = IF is_last_msg_assistant THEN messages
                   ELSE Append(messages, UiChatMsg("Assistant", NewContent))
    /\ append_target' = Len(messages')
    /\ fresh' = [fresh EXCEPT ![nruns + 1] = ~is_last_msg_assistant]
    /\ UNCHANGED stick_to_bottom

\* Mutant: Stop also discards the last message, the answer being written.
StopTruncates ==
    /\ aborted' = DropStatus
    /\ ended_by' = Ended("Stop")
    /\ inference_status' = Idle
    /\ messages' = SubSeq(messages, 1, Len(messages) - 1)
    /\ UNCHANGED <<stick_to_bottom, stream, request, url, nruns, append_target,
                   fresh>>

Stop ==
    /\ aborted' = DropStatus
    /\ ended_by' = Ended("Stop")
    /\ inference_status' = Idle
    /\ UNCHANGED <<messages, stick_to_bottom, stream, request, url, nruns,
                   append_target, fresh>>

Completion(ok, delta) ==
    /\ IF messages # <<>>
       THEN /\ messages' = [messages EXCEPT ![Len(messages)].content =
                               Paste(@, IF ok THEN delta ELSE ERROR_PREFIX \o delta)]
            /\ inference_status' = IF ok THEN inference_status ELSE Idle
            /\ aborted' = IF ok THEN aborted ELSE DropStatus
            /\ ended_by' = IF ok THEN ended_by ELSE Ended("Error")
       ELSE UNCHANGED <<messages, inference_status, aborted, ended_by>>
    /\ UNCHANGED <<stick_to_bottom, stream, request, url, nruns, append_target,
                   fresh>>

StickToBottom(value) ==
    /\ stick_to_bottom' = value
    /\ UNCHANGED <<messages, inference_status, stream, aborted, request, url,
                   nruns, append_target, ended_by, fresh>>

---------------------------------------------------------------------------
(* The runtime: where update's messages come from *)

\* A widget message is processed while a run is in flight.
UserActs ==
    IF inference_status.state = "Inferencing"
    THEN [user_acted EXCEPT ![inference_status.abort_handle] = TRUE]
    ELSE user_acted

\* A widget message: emitted by the widgets of the last rendered view.
Widget(msg, index, action) ==
    /\ nui < MaxUi
    /\ nui' = nui + 1
    /\ ui_batch' = TRUE
    /\ last' = [msg |-> msg, index |-> index, action |-> action]
    /\ user_acted' = UserActs
    /\ UNCHANGED <<views, queue, sent>>

\* The widget messages that only edit (a role, a text, the checkbox, a setting).
Edit == nedits < MaxEdits /\ nedits' = nedits + 1

NoEdit == UNCHANGED nedits

\* The role pick_list is always live.
UiChangeRole ==
    \E index \in DOMAIN messages, role \in Role :
        /\ ChangeRole(index, role) /\ Widget("ChangeRole", index, NoAction) /\ Edit
        /\ UNCHANGED prefs

\* message_widget: the editor has on_action only if not_inferencing.
UiEditText ==
    /\ view_not_inferencing
    /\ \E index \in DOMAIN messages, action \in EditActions :
          /\ EditText(index, action) /\ Widget("EditText", index, action) /\ Edit
          /\ UNCHANGED prefs

\* message_list: "+ Add Message" is pressable only if not_inferencing.
UiAddMessage ==
    /\ view_not_inferencing
    /\ AddMessage /\ Widget("AddMessage", 0, NoAction) /\ NoEdit
    /\ UNCHANGED prefs

\* message_widget: "Delete" is pressable only if not_inferencing.
UiDeleteMessage ==
    /\ view_not_inferencing
    /\ \E index \in DOMAIN messages :
          /\ DeleteMessage(index) /\ Widget("DeleteMessage", index, NoAction) /\ NoEdit
          /\ UNCHANGED prefs

\* view: the button is "Run" in a view rendered Idle, "Stop" otherwise.
UiRun ==
    /\ view_not_inferencing
    /\ Run /\ Widget("Run", 0, NoAction) /\ NoEdit
    /\ UNCHANGED prefs

UiStop ==
    /\ ~view_not_inferencing
    /\ Stop /\ Widget("Stop", 0, NoAction) /\ NoEdit
    /\ UNCHANGED prefs

UiStickToBottom ==
    \E value \in BOOLEAN :
        /\ StickToBottom(value) /\ Widget("StickToBottom", 0, NoAction) /\ Edit
        /\ UNCHANGED prefs

\* A task message: the head of the channel, ahead of the batch's widget messages.
Receive(m) ==
    /\ ~ui_batch
    /\ queue' = Tail(queue)
    /\ last' = [msg |-> m.msg, index |-> 0, action |-> NoAction]
    /\ UNCHANGED <<views, ui_batch, sent, nui, nedits, user_acted, prefs>>

TaskCompletion ==
    /\ queue # <<>>
    /\ Head(queue).msg = "Completion"
    /\ Receive(Head(queue))
    /\ Completion(Head(queue).ok, Head(queue).delta)

TaskStop ==
    /\ queue # <<>>
    /\ Head(queue).msg = "Stop"
    /\ Receive(Head(queue))
    /\ Stop

\* A message of the settings panel leaves the chat and its runs alone.
SettingsWidget(msg) ==
    /\ Widget(msg, 0, NoAction)
    /\ UNCHANGED <<chat, tasks, nruns, append_target, ended_by, fresh>>

\* settings view: the text inputs exist once the settings are loaded.
UiBaseUrlChanged ==
    /\ view_settings # "Loading"
    /\ \E text \in BaseUrls : SettingsChanged("base_url", text)
    /\ SettingsWidget("BaseUrlChanged") /\ Edit

UiModelChanged ==
    /\ view_settings # "Loading"
    /\ \E text \in Models : SettingsChanged("model", text)
    /\ SettingsWidget("ModelChanged") /\ Edit

UiMaxTokensChanged ==
    /\ view_settings # "Loading"
    /\ \E text \in NumberInputs : SettingsChanged("max_tokens", ParsableU32(text))
    /\ SettingsWidget("MaxTokensChanged") /\ Edit

UiTemperatureChanged ==
    /\ view_settings # "Loading"
    /\ \E text \in NumberInputs : SettingsChanged("temperature", ParsableF32(text))
    /\ SettingsWidget("TemperatureChanged") /\ Edit

\* settings view: "Save" has on_press only with valid, unsaved values.
UiSave ==
    /\ view_settings = "Save"
    /\ Save
    /\ SettingsWidget("Save") /\ NoEdit

\* A message of a settings task: like a run's, ahead of the widget messages.
SettingsTask ==
    /\ ~ui_batch
    /\ UNCHANGED <<chat, tasks, views, ui_batch, queue, counters, history>>

\* The Load message of the task SettingsView::new starts: the file's
\* settings, or the defaults when it cannot be read.
TaskLoad ==
    /\ settings.view = "Loading"
    /\ \E state \in SettingsFiles : Load(state)
    /\ SettingsTask

\* The same message for a settings.json of an earlier session, whatever
\* base_url it holds.
TaskLoadFile ==
    /\ settings.view = "Loading"
    /\ \E base_url \in BaseUrlInputs :
          Load([DefaultSettings EXCEPT !.base_url = base_url])
    /\ SettingsTask

\* The SaveResult of a save_settings: the settings it wrote, or its error.
TaskSaveResult ==
    /\ saves # <<>>
    /\ \E ok \in BOOLEAN : SaveResult(ok, Head(saves))
    /\ SettingsTask

\* ChatView::view after a batch: the widgets are rebuilt from the status.
View ==
    /\ \/ ui_batch
       \/ view_not_inferencing # (inference_status.state = "Idle")
       \/ view_settings # SettingsPanel
    /\ view_not_inferencing' = (inference_status.state = "Idle")
    /\ view_settings' = SettingsPanel
    /\ ui_batch' = FALSE
    /\ UNCHANGED <<chat, prefs, queue, tasks, counters, history>>

---------------------------------------------------------------------------

\* ChatView::new(): one empty User message, Idle; no run, nothing rendered twice.
Init ==
    /\ messages = <<UiChatMsg("User", NewContent)>>
    /\ inference_status = Idle
    /\ stick_to_bottom = FALSE
    /\ settings = [view |-> "Loading", saved |-> DefaultSettings,
                   live |-> DefaultSettings]
    /\ saves = <<>>
    /\ view_not_inferencing = TRUE
    /\ view_settings = "Loading"
    /\ ui_batch = FALSE
    /\ queue = <<>>
    /\ stream = [r \in Runs |-> "none"]
    /\ aborted = [r \in Runs |-> FALSE]
    /\ sent = [r \in Runs |-> <<>>]
    /\ request = [r \in Runs |-> NoRequest]
    /\ url = [r \in Runs |-> <<>>]
    /\ nruns = 0
    /\ nui = 0
    /\ nedits = 0
    /\ append_target = 0
    /\ ended_by = [r \in Runs |-> "none"]
    /\ user_acted = [r \in Runs |-> FALSE]
    /\ fresh = [r \in Runs |-> FALSE]
    /\ last = [msg |-> "none", index |-> 0, action |-> NoAction]

Next ==
    \/ UiRun
    \/ UiStop
    \/ UiAddMessage
    \/ UiDeleteMessage
    \/ UiEditText
    \/ UiChangeRole
    \/ UiStickToBottom
    \/ TaskCompletion
    \/ TaskStop
    \/ View
    \/ \E r \in Runs : \E ev \in EventSourceItems(stream[r]) : TaskPoll(r, ev)
    \/ \E r \in Runs : TaskPollClosed(r)

\* The chat session by itself: the settings stay as they are at the start.
Spec == Init /\ [][Next]_vars

\* The runtime passes every message in the channel on to update and renders
\* the view after each batch.
FairSpec ==
    /\ Spec
    /\ WF_vars(TaskCompletion)
    /\ WF_vars(TaskStop)
    /\ WF_vars(View)

\* The session together with the settings panel and the settings tasks.
SettingsNext ==
    \/ Next
    \/ UiBaseUrlChanged
    \/ UiModelChanged
    \/ UiMaxTokensChanged
    \/ UiTemperatureChanged
    \/ UiSave
    \/ TaskLoad
    \/ TaskSaveResult

SettingsSpec == Init /\ [][SettingsNext]_vars

\* Runs over the settings files a start can find: the URL of a run for every
\* base_url of up to MaxUrlLen characters.
UrlNext ==
    \/ TaskLoadFile
    \/ UiRun
    \/ View

UrlSpec == Init /\ [][UrlNext]_vars

---------------------------------------------------------------------------
(* Properties *)

RECURSIVE Concat(_)
Concat(seqs) == IF seqs = <<>> THEN <<>> ELSE Head(seqs) \o Concat(Tail(seqs))

IsContent(ev) == ev.type = "Message" /\ ev.kind = "Json" /\ ev.content.json = "string"

\* The fragments f1..fn among the events the server sent to run r, in order.
FragmentsSent(r) ==
    LET evs == SelectSeq(sent[r], IsContent)
    IN  [i \in DOMAIN evs |-> evs[i].content.str]

\* The server sent run r only the Open event, fragments and [DONE]: no error.
IsBenign(ev) ==
    \/ ev.type = "Open"
    \/ IsContent(ev)
    \/ ev = EvDone
    \/ ev.type = "Err" /\ ev.kind = "StreamEnded"

NoErrorSent(r) == \A i \in DOMAIN sent[r] : IsBenign(sent[r][i])

\* update takes a message off the channel in this step.
Received == queue # <<>> /\ queue' = Tail(queue)

\* update processes the widget message msg in this step.
Pressed(msg) == nui' # nui /\ last'.msg = msg

\* C1: a run that starts with a fresh empty Assistant target, is sent fragments
\* f1..fn and no error, and sees no user action, leaves the target holding
\* exactly f1 ++ ... ++ fn when the session returns to Idle.
C1_ContentIsConcatenation ==
    [][\A r \in Runs :
          (/\ inference_status = Inferencing(r)
           /\ inference_status'.state = "Idle"
           /\ fresh[r]
           /\ ~user_acted'[r]
           /\ NoErrorSent(r))
          => /\ append_target \in DOMAIN messages'
             /\ messages'[append_target].content.text = Concat(FragmentsSent(r))]_vars

\* C2: once a Stop has ended a run, a Completion of that run still in the
\* channel is discarded: processing it leaves the conversation as it is.
C2_StoppedRunIsDiscarded ==
    [][(/\ Received
        /\ Head(queue).msg = "Completion"
        /\ ended_by[Head(queue).run] = "Stop")
       => messages' = messages]_vars

\* C3: a Run processed while Inferencing is rejected: no request, no stream,
\* the handle and its task untouched, conversation and status unchanged.
C3_RunWhileInferencingRejected ==
    [][(Pressed("Run") /\ inference_status.state = "Inferencing")
       => /\ messages' = messages
          /\ inference_status' = inference_status
          /\ aborted' = aborted
          /\ stream' = stream
          /\ request' = request]_vars

\* C4: an error Completion processed while Inferencing appends
\* "\n\nRan into an error:\n" ++ msg to the append target, after the text
\* it already holds, and the status is Idle after the same step.
C4_ErrorBlockAppended ==
    [][(/\ Received
        /\ Head(queue).msg = "Completion"
        /\ ~Head(queue).ok
        /\ inference_status.state = "Inferencing")
       => /\ inference_status'.state = "Idle"
          /\ append_target \in DOMAIN messages
          /\ append_target \in DOMAIN messages'
          /\ messages'[append_target].content.text =
                messages[append_target].content.text \o ERROR_PREFIX
                \o Head(queue).delta]_vars

\* C5: [DONE] alone brings the session back to Idle: once the server has sent
\* [DONE] as the last event of the run in flight and update has processed
\* every message the task produced, the session is no longer Inferencing.
C5_DoneReturnsToIdle ==
    \A r \in Runs :
        (/\ sent[r] # <<>>
         /\ sent[r][Len(sent[r])] = EvDone
         /\ queue = <<>>)
        => inference_status # Inferencing(r)

EmptyAssistant == [role |-> "Assistant", content |-> [text |-> <<>>, cursor |-> 0]]

\* C6: Run from Idle adds no message when the last one is Assistant and
\* pushes exactly one empty Assistant message otherwise, leaving the earlier
\* messages as they are; the fragments processed next, before any widget
\* message, go into that last message and into no other.
C6_RunPicksAppendTarget ==
    [][/\ (Pressed("Run") /\ inference_status.state = "Idle")
          => IF messages # <<>> /\ messages[Len(messages)].role = "Assistant"
             THEN messages' = messages
             ELSE messages' = Append(messages, EmptyAssistant)
       /\ (/\ Received
           /\ Head(queue).msg = "Completion"
           /\ Head(queue).ok
           /\ inference_status.state = "Inferencing"
           /\ ~user_acted[inference_status.abort_handle])
          => /\ Len(messages') = Len(messages)
             /\ messages'[Len(messages)].role = "Assistant"
             /\ Len(messages'[Len(messages)].content.text) =
                   Len(messages[Len(messages)].content.text) + Len(Head(queue).delta)
             /\ \A i \in 1..(Len(messages) - 1) : messages'[i] = messages[i]]_vars

\* A second run, started from Idle on the Assistant message the first run
\* left, has had a fragment applied to that message.
C6_Witness ==
    /\ inference_status = Inferencing(2)
    /\ ended_by[1] \in {"Stop", "Error"}
    /\ ~fresh[2]
    /\ ~user_acted[2]
    /\ last.msg = "Completion"
    /\ Len(messages) = 2
    /\ messages[2].content.text \in Fragments

\* C7: a DeleteMessage processed while Inferencing is refused: the
\* conversation is unchanged.
C7_DeleteWhileInferencingRefused ==
    [][(Pressed("DeleteMessage") /\ inference_status.state = "Inferencing")
       => messages' = messages]_vars

\* C8: a ChangeRole processed while Inferencing changes no role, no content
\* and not the status; processed while Idle it changes at most the role of
\* the message at its index.
C8_ChangeRoleGuarded ==
    [][Pressed("ChangeRole")
       => /\ inference_status' = inference_status
          /\ IF inference_status.state = "Inferencing"
             THEN messages' = messages
             ELSE /\ Len(messages') = Len(messages)
                  /\ \A i \in DOMAIN messages :
                        /\ messages'[i].content = messages[i].content
                        /\ i # last'.index => messages'[i] = messages[i]]_vars

\* A ChangeRole was the last message processed and the session is Inferencing.
C8_Witness ==
    /\ last.msg = "ChangeRole"
    /\ inference_status.state = "Inferencing"
    /\ Len(messages) >= 2

\* C9: while Inferencing the last message is the Assistant message the Run
\* designated.
C9_AppendTargetFixed ==
    inference_status.state = "Inferencing"
    => /\ messages # <<>>
       /\ messages[Len(messages)].role = "Assistant"
       /\ append_target = Len(messages)

InSeq(x, seq) == \E i \in DOMAIN seq : seq[i] = x

\* The event a poll of run r has just taken from the event source.
Polled(r) == sent'[r] # sent[r]

LastSent(r) == sent'[r][Len(sent'[r])]

\* An event that completions turns into an error item.
IsErrItem(ev) == take_while(ev) /\ try_filter_map(ev).tag = "Err"

\* C11: an error item is terminal: once the stream of run r has yielded an
\* Err item, no further event is taken from the server for it, and the
\* event source does not connect again.
C11_ErrorItemIsTerminal ==
    [][\A r \in Runs :
          /\ (\E i \in DOMAIN sent[r] : IsErrItem(sent[r][i])) => ~Polled(r)
          /\ (Polled(r) /\ IsErrItem(LastSent(r))) => stream'[r] # "connecting"]_vars

\* C14: a message event other than [DONE] yields a fragment when its data is
\* JSON with a string at choices[0].delta.content, and an error item in every
\* other case: data that is not JSON, the field absent, null or not a string.
C14_ParserFailures ==
    [][\A r \in Runs :
          (Polled(r) /\ LastSent(r).type = "Message" /\ LastSent(r) # EvDone)
          => /\ Len(queue') = Len(queue) + 1
             /\ SubSeq(queue', 1, Len(queue)) = queue
             /\ queue'[Len(queue')].msg = "Completion"
             /\ queue'[Len(queue')].run = r
             /\ IF LastSent(r).kind = "Json" /\ LastSent(r).content.json = "string"
                THEN /\ queue'[Len(queue')].ok
                     /\ queue'[Len(queue')].delta = LastSent(r).content.str
                ELSE ~queue'[Len(queue')].ok]_vars

\* The server opened with a frame that has no delta.content, and the error
\* item it became is in the channel.
C14_Witness ==
    \E r \in Runs :
        /\ sent[r] = <<EvOpen, EvNoContent>>
        /\ queue # <<>>
        /\ queue[Len(queue)] = CompletionMsg(Err(DeltaNotFoundText), r)

\* C15 as stated: every fragment completions emits is a non-empty string.
C15_FragmentsNonEmpty ==
    \A i \in DOMAIN queue :
        (queue[i].msg = "Completion" /\ queue[i].ok) => queue[i].delta # <<>>

\* C15 amended: a fragment is the string at choices[0].delta.content, which
\* may be empty: an event whose content is the empty string yields a
\* fragment item carrying the empty string, passed on like any other.
C15_EmptyFragmentEmitted ==
    [][\A r \in Runs :
          (Polled(r) /\ LastSent(r) = EvContent(<<>>))
          => queue' = Append(queue, CompletionMsg(Ok(<<>>), r))]_vars

\* The server sent a frame whose content is "" and update was passed the
\* fragment it became.
C15_Witness ==
    \E r \in Runs :
        /\ InSeq(EvContent(<<>>), sent[r])
        /\ last.msg = "Completion"
        /\ inference_status = Inferencing(r)
        /\ messages[Len(messages)].content.text = <<>>
        /\ queue = <<>>
        /\ Len(sent[r]) = 2

\* C17: EditText and AddMessage are applied in either state: EditText
\* performs its action on the content of the message at its index, AddMessage
\* pushes one empty User message at the end, and neither changes the status
\* or any other message.
C17_EditAndAddInBothStates ==
    [][/\ Pressed("EditText")
          => /\ last'.index \in DOMAIN messages
             /\ messages' = [messages EXCEPT ![last'.index].content =
                                Perform(@, last'.action)]
             /\ inference_status' = inference_status
       /\ Pressed("AddMessage")
          => /\ messages' = Append(messages, UiChatMsg("User", NewContent))
             /\ inference_status' = inference_status]_vars

\* An AddMessage was processed while Inferencing: the new empty User message
\* follows the Assistant message of the run.
C17_Witness ==
    /\ last.msg = "AddMessage"
    /\ inference_status.state = "Inferencing"
    /\ Len(messages) = 3
    /\ messages[3] = UiChatMsg("User", NewContent)
    /\ messages[2].role = "Assistant"

\* update processes a Stop in this step, from the button or from the channel.
StopProcessed ==
    \/ Pressed("Stop")
    \/ Received /\ Head(queue).msg = "Stop"

\* C18: a Stop processed while the status is already Idle is a no-op: the
\* status stays Idle, the conversation is unchanged and no task is touched.
C18_StopIdempotent ==
    [][(StopProcessed /\ inference_status.state = "Idle")
       => /\ inference_status' = Idle
          /\ messages' = messages
          /\ aborted' = aborted
          /\ stream' = stream]_vars

\* Two Stops in a row: Run, then the Stop button twice before the view was
\* rendered again.
C18_Witness ==
    /\ last.msg = "Stop"
    /\ nui = 3
    /\ nruns = 1
    /\ nedits = 0
    /\ Len(messages) = 2
    /\ inference_status = Idle

\* C19: a fragment of the run in flight goes to the end of the text it is
\* applied to: after the Completion the last message holds its former text
\* followed by the fragment, wherever its cursor was.
C19_FragmentAppendedAtEnd ==
    [][(/\ Received
        /\ Head(queue).msg = "Completion"
        /\ Head(queue).ok
        /\ inference_status = Inferencing(Head(queue).run)
        /\ messages # <<>>)
       => /\ Len(messages') = Len(messages)
          /\ messages'[Len(messages)].content.text =
                messages[Len(messages)].content.text \o Head(queue).delta]_vars

\* C20: a Completion that carries an error leaves the status Idle, whatever
\* the conversation holds when it is processed.
C20_ErrorSetsIdle ==
    [][(Received /\ Head(queue).msg = "Completion" /\ ~Head(queue).ok)
       => inference_status'.state = "Idle"]_vars

EndsWithSlash(text) == text # <<>> /\ text[Len(text)] = "/"

\* C13: the URL of a run is base_url ++ "v1/chat/completions" when the saved
\* base_url ends with "/" and base_url ++ "/v1/chat/completions" otherwise;
\* a base without a trailing slash and the same base with one give the same
\* URL, with one slash between base and path.
C13_UrlNormalized ==
    [][Pressed("Run")
       => LET b == SavedSettings.base_url
              u == url'[nruns']
          IN  /\ EndsWithSlash(b) => u = b \o COMPLETIONS_PATH
              /\ ~EndsWithSlash(b)
                    => /\ u = b \o <<"/">> \o COMPLETIONS_PATH
                       /\ u = CompletionsUrl(b \o <<"/">>)]_vars

\* Runs were started with a base_url that ends with a slash and with one
\* that does not, and both post to the same URL.
C13_Witness ==
    /\ nruns = 1
    /\ settings.view = "Loaded"
    /\ settings.saved.base_url = <<"h", "/", "h", "/">>
    /\ url[1] = <<"h", "/", "h", "/">> \o COMPLETIONS_PATH
    /\ url[1] = CompletionsUrl(<<"h", "/", "h">>)

\* C16: the CompletionRequest of a run is fixed when Run is processed: no
\* later message, of the chat, of the settings or of a task, changes its
\* messages, model, max_tokens or temperature.
C16_RequestFixed ==
    [][\A r \in Runs : request[r] # NoRequest => request'[r] = request[r]]_vars

\* Run 1 is in flight with the request it was given, while the saved
\* settings and the conversation have moved on: another model was saved and
\* a fragment was applied.
C16_Witness ==
    /\ inference_status = Inferencing(1)
    /\ settings.view = "Loaded"
    /\ settings.saved.model # request[1].model
    /\ Len(messages) = 2
    /\ messages[2].content.text \in Fragments
    /\ Len(request[1].messages) = 1

\* The stream of run r has ended with StreamEnded and its chained Stop is in
\* the channel.
StopOfEndedStreamQueued(r) ==
    /\ sent[r] # <<>>
    /\ sent[r][Len(sent[r])] = ErrStreamEnded
    /\ InSeq(StopMsg(r), queue)

\* C12: StreamEnded ends the sequence without an error item, only the chained
\* Stop follows it; processing a Stop writes nothing into the conversation;
\* and once the Stop is in the channel the session reaches Idle.
C12_StreamEndedIsCleanEnd ==
    /\ [][\A r \in Runs :
             (Polled(r) /\ LastSent(r) = ErrStreamEnded)
             => /\ queue' = Append(queue, StopMsg(r))
                /\ stream'[r] = "done"]_vars
    /\ [][(Received /\ Head(queue).msg = "Stop")
          => /\ messages' = messages
             /\ inference_status' = Idle]_vars
    /\ \A r \in Runs :
          StopOfEndedStreamQueued(r) ~> (inference_status.state = "Idle")

\* A stream that delivered one fragment and ended with StreamEnded: the
\* chained Stop has been processed, the session is Idle and the target holds
\* the fragment and nothing else.
C12_Witness ==
    \E f \in Fragments :
        /\ sent[1] = <<EvOpen, EvContent(f), ErrStreamEnded>>
        /\ last.msg = "Stop"
        /\ queue = <<>>
        /\ inference_status = Idle
        /\ ended_by[1] = "Stop"
        /\ nui = 1
        /\ messages[Len(messages)].content.text = f

\* The task of run r has been started and not aborted.
Live(r) == stream[r] # "none" /\ ~aborted[r]

\* C21: at most one stream task is live, and it is the one whose handle the
\* status holds: every task but that of the held handle has been aborted, so
\* every step that discards a handle aborts its task, and none is live in Idle.
C21_OneLiveTask ==
    \A r \in Runs : Live(r) => inference_status = Inferencing(r)

\* A Run was processed while run 1 was in flight: the handle of run 1 was
\* discarded and its task aborted, the task of run 2 is the live one.
C21_Witness ==
    /\ nruns = 2
    /\ ended_by[1] = "Run"
    /\ aborted[1]
    /\ Live(2)
    /\ inference_status = Inferencing(2)

\* The message at the head of the channel was produced by a run other than the
\* one whose handle the status holds.
StaleHead ==
    /\ queue # <<>>
    /\ inference_status.state = "Inferencing"
    /\ Head(queue).run < inference_status.abort_handle

\* C22: a Stop or Completion message of run i still in the channel when run i
\* was cancelled or failed is never processed as an event of a later run j:
\* receiving it changes neither the status nor the conversation of run j.
C22_StaleMessageIgnored ==
    [][(StaleHead /\ Received) =>
          /\ inference_status' = inference_status
          /\ messages' = messages]_vars

\* The (role, content) pairs of a conversation as a request carries them: the
\* content of a message is what text_editor::Content::text() returns for it.
Pairs(msgs) ==
    [i \in DOMAIN msgs |->
        [content |-> ContentText(msgs[i].content), role |-> msgs[i].role]]

\* C23: the messages of the request built by Run are the (role, content) pairs
\* of the conversation immediately before Run, in conversation order: an
\* append target created by this Run is not among them, and in a continuation
\* run the trailing Assistant message is the last of them, with the content it
\* has when Run is processed.
C23_RequestIsConversationBeforeRun ==
    [][Pressed("Run") =>
          /\ request'[nruns'].messages = Pairs(messages)
          /\ ~is_last_msg_assistant =>
                /\ Len(request'[nruns'].messages) = Len(messages') - 1
                /\ append_target' = Len(messages')
          /\ is_last_msg_assistant =>
                /\ messages' = messages
                /\ request'[nruns'].messages[Len(messages)] =
                      [content |-> ContentText(messages[Len(messages)].content),
                       role    |-> "Assistant"]]_vars

\* Both cases have happened: run 1 created its append target, which its request
\* does not hold, and run 2 continued that message after it had received a
\* fragment, which its request holds as the last message.
C23_Witness ==
    /\ nruns = 2
    /\ Len(request[1].messages) = 1
    /\ Len(request[2].messages) = 2
    /\ request[2].messages[2].role = "Assistant"
    /\ ended_by[1] = "Stop"
    /\ request[2].messages[2].content = ContentText(Paste(NewContent, <<"H", "e", "l">>))
    /\ Len(messages) = 2

\* C24: an event of the event source that is no message event (the connection
\* Open event) produces no item and does not end the sequence: the task sends
\* nothing for it and goes on reading, and the fragments of the message events
\* after it are emitted, each behind the items already produced.
C24_OpenEventSkipped ==
    [][\A r \in Runs :
          Polled(r) =>
             /\ LastSent(r).type = "Open" =>
                   /\ queue' = queue
                   /\ stream'[r] = "open"
                   /\ EventSourceItems(stream'[r]) # {}
             /\ (IsContent(LastSent(r)) /\ InSeq(EvOpen, sent[r])) =>
                   queue' = Append(queue,
                                   CompletionMsg(Ok(LastSent(r).content.str), r))]_vars

\* The server sent Open and then two different fragments: both are in the
\* channel, in the order sent, and nothing was produced for Open.
C24_Witness ==
    \E r \in Runs : \E f1, f2 \in Fragments :
        /\ f1 # f2
        /\ sent[r] = <<EvOpen, EvContent(f1), EvContent(f2)>>
        /\ queue = <<CompletionMsg(Ok(f1), r), CompletionMsg(Ok(f2), r)>>

\* update processes an error Completion in this step.
ErrorProcessed == Received /\ Head(queue).msg = "Completion" /\ ~Head(queue).ok

\* update processes a successful fragment in this step.
FragmentProcessed == Received /\ Head(queue).msg = "Completion" /\ Head(queue).ok

\* C25: the status is Inferencing exactly between a Run and the first Stop or
\* error Completion processed after it: Run leaves it Inferencing, a processed
\* Stop or error Completion leaves it Idle, a successful fragment does not
\* change it, and nothing but Run takes it from Idle to Inferencing.
C25_InferencingBetweenRunAndEnd ==
    [][/\ Pressed("Run") => inference_status'.state = "Inferencing"
       /\ (StopProcessed \/ ErrorProcessed) => inference_status' = Idle
       /\ FragmentProcessed => inference_status' = inference_status
       /\ (inference_status = Idle /\ inference_status' # Idle) => Pressed("Run")
       /\ (inference_status # Idle /\ inference_status' = Idle) =>
             (StopProcessed \/ ErrorProcessed)]_vars

============================================================================
